---- MODULE Spec2Model ----
(***************************************************************************)
(* Verification model of the generative-policy sampling core:              *)
(*   - GuidedConditionalFlowModel.sample / sample_forward_process           *)
(*   - StochasticProcess.mean                                               *)
(*   - GuidedPolicy.sample                                                  *)
(*   - GPDataset.__getitem__ / D4RLDataset.__getitem__                      *)
(*   - GPAlgorithm.__init__ / train / deploy                                *)
(*   - build_normalization and MLP                                          *)
(*   - return_range of the D4RL datasets                                    *)
(*   - StochasticProcess.velocity                                           *)
(* Tensors are records [shape, data] with data in row-major order, so that *)
(* repeat_interleave, reshape, squeeze and indexing act as in torch.       *)
(* Real numbers are fixed point: a guidance scale g stands for g / GDen,   *)
(* a time t of the probability path for t / TDen.                          *)
(***************************************************************************)
EXTENDS Integers, Sequences, FiniteSets, TLC

\* ---------------------------------------------------------------- bounds
\* data batch sizes N range over 1..MaxN
MaxN == 2
\* extra batch sizes B range over 1..MaxB
MaxB == 2
\* the rows of x_0 and of a Gaussian draw start at a seed in 0..MaxSeed
MaxSeed == 1
\* config.x_size, the state dimension D
XSize == 2
\* guidance scales are multiples of 1 / GDen
GDen == 2
\* guidance scales range over 0..MaxScale, in units of 1 / GDen
MaxScale == 3
\* length T of t_span
TSteps == 3

\* ------------------------------------------------------------------ state
\* GuidedConditionalFlowModel: the last call (op, args), the draw of the
\* Gaussian generator, the solver.integrate call and the drift evaluations it
\* made, the trajectory (data), the value sample returned, and the outcome
VARIABLES op, args, gaussian, integrate_call, drift_evals, data, sampled, status

vars_flow == <<op, args, gaussian, integrate_call, drift_evals, data, sampled, status>>

\* StochasticProcess: the last call, its arguments and its result
VARIABLES sp_op, sp_args, sp_result

vars_sp == <<sp_op, sp_args, sp_result>>

\* GuidedPolicy: its construction, the arguments of the last sample call, the
\* generator draws and the sampler calls that call made
VARIABLES gp_op, gp_type, gp_model, gp_args, gp_draws, gp_calls

vars_gp == <<gp_op, gp_type, gp_model, gp_args, gp_draws, gp_calls>>

\* the dataset object, and the argument and the return value of the last call
VARIABLES ds, ds_index, ds_item

vars_ds == <<ds, ds_index, ds_item>>

\* GPAlgorithm: the object (config, model, train epochs, dataset attributes),
\* the modules its model refers to, the agents deploy returned, the outcome of
\* the last deploy call, the position of train and what train did so far
VARIABLES algo, heap, agents, deploy_result, pc, events

vars_alg == <<algo, heap, agents, deploy_result, pc, events>>

\* modules: the last constructor call, its arguments and its result
VARIABLES mod_op, mod_args, mod_result

vars_mod == <<mod_op, mod_args, mod_result>>

\* return_range: the last call, its arguments and its result
VARIABLES rr_op, rr_args, rr_result

vars_rr == <<rr_op, rr_args, rr_result>>

\* StochasticProcess.velocity: the last call, its arguments and its result
VARIABLES vel_op, vel_args, vel_result

vars_vel == <<vel_op, vel_args, vel_result>>

vars == <<vars_flow, vars_sp, vars_gp, vars_ds, vars_alg, vars_mod, vars_rr, vars_vel>>

None == [shape |-> <<>>, data |-> <<>>, none |-> TRUE]

\* ---------------------------------------------------------------- tensors
RECURSIVE Prod(_)
Prod(s) == IF s = <<>> THEN 1 ELSE Head(s) * Prod(Tail(s))

\* data is stored as an explicit tuple
Tensor(shape, values) == [shape |-> shape, data |-> values \o <<>>, none |-> FALSE]

IsNone(t) == t.none

\* number of scalars of one entry along dim 0
RowWidth(t) == Prod(Tail(t.shape))

\* t[i] for a 0-based index i along dim 0
Index0(t, i) ==
    Tensor(Tail(t.shape), SubSeq(t.data, i * RowWidth(t) + 1, (i + 1) * RowWidth(t)))

\* t[-1]
IndexLast(t) == Index0(t, t.shape[1] - 1)

\* the scalar at the multi-index idx (0-based) of t, row-major
RECURSIVE Offset(_, _)
Offset(shape, idx) ==
    IF shape = <<>> THEN 0
    ELSE Head(idx) * Prod(Tail(shape)) + Offset(Tail(shape), Tail(idx))

At(t, idx) == t.data[Offset(t.shape, idx) + 1]

\* torch.repeat_interleave(t, r, dim=0): every row r times, in place
RepeatInterleave(t, r) ==
    LET w == RowWidth(t)
        n == t.shape[1]
    IN Tensor(<<n * r>> \o Tail(t.shape),
              [k \in 1..(n * r * w) |->
                  t.data[(((k - 1) \div w) \div r) * w + ((k - 1) % w) + 1]])

\* data.reshape(-1, *rest): the leading dimension is inferred
ReshapeInfer(t, rest) ==
    Tensor(<<Len(t.data) \div Prod(rest)>> \o rest, t.data)

\* data.squeeze(dim): drops dim when its size is 1, leaves t alone otherwise
Squeeze(t, dim) ==
    IF t.shape[dim + 1] = 1
    THEN Tensor(SubSeq(t.shape, 1, dim) \o SubSeq(t.shape, dim + 2, Len(t.shape)), t.data)
    ELSE t


\* ------------------------------------------------- GuidedConditionalFlowModel
\* a row of x_size scalars; different k give rows that differ in every component
Row(k) == [d \in 1..XSize |-> k * XSize + d]

RECURSIVE Flatten(_)
Flatten(rows) == IF rows = <<>> THEN <<>> ELSE Head(rows) \o Flatten(Tail(rows))

\* the (n, width) tensor whose rows are rows
FromRows(rows, width) == Tensor(<<Len(rows), width>>, Flatten(rows))

\* a velocity network: row i of the output depends on t, row i of x and row i
\* of the condition only; outputs are multiples of GDen so that the blend of
\* two outputs by a scale g / GDen is exact
ModelEval(m, t, x, condition) ==
    LET w == RowWidth(x)
        c(i) == IF IsNone(condition) THEN 0
                ELSE condition.data[i * RowWidth(condition) + 1]
    IN Tensor(x.shape,
              [k \in 1..Len(x.data) |->
                  GDen * (m.wx * x.data[k] + m.wc * c((k - 1) \div w) + m.wt * t)])

Add(u, v) == Tensor(u.shape, [k \in 1..Len(u.data) |-> u.data[k] + v.data[k]])

\* (num / GDen) * u
Scale(num, u) == Tensor(u.shape, [k \in 1..Len(u.data) |-> (num * u.data[k]) \div GDen])

\* def drift(t, x) of sample_forward_process; f holds what the closure captures
DriftSwapped(f, t, x) ==
    Add(Scale(f.guidance_scale, ModelEval(f.base_model, t, x, f.condition)),
        Scale(GDen - f.guidance_scale, ModelEval(f.guided_model, t, x, f.condition)))

Drift(f, t, x) ==
    Add(Scale(GDen - f.guidance_scale, ModelEval(f.base_model, t, x, f.condition)),
        Scale(f.guidance_scale, ModelEval(f.guided_model, t, x, f.condition)))

\* solver.integrate(drift, x0, t_span): the states at the times of t_span,
\* by explicit Euler steps; States[k] is the state at t_span[k]
RECURSIVE States(_, _, _, _)
States(f, x, t_span, k) ==
    IF k = Len(t_span) THEN <<x>>
    ELSE LET v == Drift(f, t_span[k], x)
             step == Tensor(x.shape, [j \in 1..Len(x.data) |->
                                         v.data[j] * (t_span[k + 1] - t_span[k])])
         IN <<x>> \o States(f, Add(x, step), t_span, k + 1)

RECURSIVE FlattenData(_)
FlattenData(ts) == IF ts = <<>> THEN <<>> ELSE Head(ts).data \o FlattenData(Tail(ts))

\* the (T, B*N, D) trajectory the solver returns
Integrate(f, x0, t_span) ==
    Tensor(<<Len(t_span)>> \o x0.shape, FlattenData(States(f, x0, t_span, 1)))

\* the evaluations of drift the solver made: time, state and value
DriftEvals(f, x0, t_span) ==
    LET xs == States(f, x0, t_span, 1)
    IN [k \in 1..(Len(t_span) - 1) |->
           [t |-> t_span[k], x |-> xs[k], value |-> Drift(f, t_span[k], xs[k])]]

\* lines 164-176: extra_batch_size; batch_size is None or an int
ExtraBatchSize(batch_size) == IF batch_size.given THEN batch_size.value ELSE 1

\* lines 178-188: data_batch_size
DataBatchSize(x_0, condition) ==
    IF ~IsNone(x_0) THEN x_0.shape[1]
    ELSE IF ~IsNone(condition) THEN condition.shape[1]
    ELSE 1

\* lines 199-201: the number of rows asked of the Gaussian generator
GaussianRowsDataOnly(a) == DataBatchSize(a.x_0, a.condition)

GaussianRows(a) == ExtraBatchSize(a.batch_size) * DataBatchSize(a.x_0, a.condition)

\* lines 198-220: the initial state handed to the solver, of shape (B*N, D)
InitialState(a, noise) ==
    IF IsNone(a.x_0) THEN noise
    ELSE RepeatInterleave(a.x_0, ExtraBatchSize(a.batch_size))

\* lines 222-240: the condition the drift closes over, of shape (B*N, D)
RepeatedCondition(a) ==
    IF IsNone(a.condition) THEN None
    ELSE RepeatInterleave(a.condition, ExtraBatchSize(a.batch_size))

\* lines 242-312: does the solver dispatch reach an integrate call
SolverIntegrates(solver) == solver.type \in {"ODESolver", "DictTensorODESolver"}

\* lines 251-306: is solver.integrate called inside a torch.no_grad() block;
\* outside of it the grad mode is the one of the caller, enabled by default
NoGradInAdjointBranch(a) ==
    IF a.solver.type = "ODESolver" /\ a.solver.library = "torchdiffeq_adjoint"
    THEN TRUE
    ELSE ~a.with_grad

NoGrad(a) ==
    IF a.solver.type = "ODESolver"
    THEN IF a.solver.library = "torchdiffeq_adjoint"
         THEN (IF a.with_grad THEN FALSE ELSE TRUE)
         ELSE (IF a.with_grad THEN FALSE ELSE TRUE)
    ELSE (IF a.with_grad THEN FALSE ELSE TRUE)

\* lines 244-306: the solver.integrate call that is made
IntegrateCall(a, x) ==
    [branch |-> IF a.solver.type = "DictTensorODESolver" THEN "DictTensorODESolver"
                ELSE IF a.solver.library = "torchdiffeq_adjoint" THEN "ODESolver/adjoint"
                ELSE "ODESolver",
     x0 |-> x,
     condition |-> RepeatedCondition(a),
     t_span |-> a.t_span,
     adjoint_params |-> a.solver.type = "ODESolver"
                        /\ a.solver.library = "torchdiffeq_adjoint",
     batch_size |-> IF a.solver.type = "DictTensorODESolver"
                    THEN ExtraBatchSize(a.batch_size) * DataBatchSize(a.x_0, a.condition)
                    ELSE 0,
     no_grad |-> NoGrad(a)]

\* lines 314-346: data.reshape(-1, *extra_batch_size, data_batch_size, x_size);
\* extra_batch_size is a 1-d tensor, so the branch of line 331 is the one taken
ReshapeDataSwapped(a, d) ==
    ReshapeInfer(d, <<DataBatchSize(a.x_0, a.condition),
                      ExtraBatchSize(a.batch_size), XSize>>)

ReshapeData(a, d) ==
    ReshapeInfer(d, <<ExtraBatchSize(a.batch_size),
                      DataBatchSize(a.x_0, a.condition), XSize>>)

\* lines 348-361: the squeezes of the reshaped (T, B, N, D) data
SqueezeDataByX0Only(a, d) ==
    IF ~a.batch_size.given
    THEN IF IsNone(a.x_0) /\ IsNone(a.condition)
         THEN Squeeze(Squeeze(d, 1), 1)
         ELSE Squeeze(d, 1)
    ELSE IF IsNone(a.x_0)
         THEN Squeeze(d, 1 + 1)
         ELSE d

SqueezeData(a, d) ==
    IF ~a.batch_size.given
    THEN IF IsNone(a.x_0) /\ IsNone(a.condition)
         THEN Squeeze(Squeeze(d, 1), 1)
         ELSE Squeeze(d, 1)
    ELSE IF IsNone(a.x_0) /\ IsNone(a.condition)
         THEN Squeeze(d, 1 + 1)
         ELSE d

NoCall == [branch |-> "none", x0 |-> None, condition |-> None, t_span |-> <<>>,
           adjoint_params |-> FALSE, batch_size |-> 0, no_grad |-> FALSE]

Raise(e) == [status |-> e, integrate_call |-> NoCall, drift_evals |-> <<>>, data |-> None]

\* what the drift closure captures
Closure(a) ==
    [guidance_scale |-> a.guidance_scale, base_model |-> a.base_model,
     guided_model |-> a.guided_model, condition |-> RepeatedCondition(a)]

\* GuidedConditionalFlowModel.sample_forward_process
SampleForwardProcess(a, noise) ==
    IF ~IsNone(a.x_0) /\ ~IsNone(a.condition) /\ a.x_0.shape[1] # a.condition.shape[1]
    THEN Raise("AssertionError")
    ELSE IF a.solver.type = "Missing"
    THEN Raise("AssertionError")
    ELSE IF ~IsNone(a.x_0) /\ Tail(a.x_0.shape) # <<XSize>>
    THEN Raise("AssertionError")
    ELSE IF ~SolverIntegrates(a.solver)
    THEN Raise("NotImplementedError")
    ELSE LET x == InitialState(a, noise)
         IN [status |-> "ok",
             integrate_call |-> IntegrateCall(a, x),
             drift_evals |-> DriftEvals(Closure(a), x, a.t_span),
             data |-> SqueezeData(a, ReshapeData(a, Integrate(Closure(a), x, a.t_span)))]

\* GuidedConditionalFlowModel.sample: the result of sample_forward_process, [-1]
SampleFirst(r) == IF r.status = "ok" THEN Index0(r.data, 0) ELSE None

Sample(r) == IF r.status = "ok" THEN IndexLast(r.data) ELSE None

\* ---- the arguments of a call
Seeds == 0..MaxSeed

X0s ==
    {None}
    \cup {FromRows([n \in 1..N |-> Row(seed + n - 1)], XSize) : N \in 1..MaxN, seed \in Seeds}
    \cup {Tensor(<<1, XSize + 1>>, [k \in 1..(XSize + 1) |-> k])}

Conditions ==
    {None}
    \cup {Tensor(<<N, 1>>, [n \in 1..N |-> n]) : N \in 1..MaxN}

BatchSizes ==
    {[given |-> FALSE, value |-> 0]} \cup {[given |-> TRUE, value |-> b] : b \in 1..MaxB}

\* solvers whose branch reaches solver.integrate
IntegratingSolvers ==
    {[type |-> "ODESolver", library |-> "torchdiffeq"],
     [type |-> "ODESolver", library |-> "torchdiffeq_adjoint"],
     [type |-> "DictTensorODESolver", library |-> ""]}

\* solvers whose branch raises, and the model without any solver
OtherSolvers ==
    {[type |-> "DPMSolver", library |-> ""],
     [type |-> "SDESolver", library |-> ""],
     [type |-> "Unknown", library |-> ""],
     [type |-> "Missing", library |-> ""]}

\* the velocity networks passed as base_model and guided_model
BaseModel == [wx |-> 1, wc |-> 1, wt |-> 0]

GuidedModel == [wx |-> 0, wc |-> 2, wt |-> 1]

TSpan == [k \in 1..TSteps |-> k - 1]

\* calls that integrate take every combination of the tensor arguments; calls
\* that stop at the solver dispatch do not read them past the assertions
Args ==
    [x_0 : X0s, condition : Conditions, batch_size : BatchSizes, with_grad : BOOLEAN,
     solver : IntegratingSolvers, guidance_scale : 0..MaxScale,
     base_model : {BaseModel}, guided_model : {GuidedModel}, t_span : {TSpan}]
    \cup
    [x_0 : {x \in X0s : IsNone(x) \/ x.shape[1] = 1},
     condition : {c \in Conditions : IsNone(c) \/ c.shape[1] = MaxN},
     batch_size : {b \in BatchSizes : ~b.given}, with_grad : BOOLEAN,
     solver : OtherSolvers, guidance_scale : {GDen},
     base_model : {BaseModel}, guided_model : {GuidedModel}, t_span : {TSpan}]

\* self.gaussian_generator(batch_size=R): R rows of x_size scalars
Gaussian(R, seed) == FromRows([i \in 1..R |-> Row(seed + i - 1)], XSize)

\* the draw a call with arguments a makes: none when x_0 is given
Draws(a) ==
    IF IsNone(a.x_0)
    THEN {Gaussian(GaussianRows(a), seed) : seed \in Seeds}
    ELSE {None}

NoArgs ==
    [x_0 |-> None, condition |-> None, batch_size |-> [given |-> FALSE, value |-> 0],
     with_grad |-> FALSE, solver |-> [type |-> "Missing", library |-> ""],
     guidance_scale |-> 0, base_model |-> [wx |-> 0, wc |-> 0, wt |-> 0],
     guided_model |-> [wx |-> 0, wc |-> 0, wt |-> 0], t_span |-> <<>>]

InitFlow ==
    /\ op = "init"
    /\ args = NoArgs
    /\ gaussian = None
    /\ integrate_call = NoCall
    /\ drift_evals = <<>>
    /\ data = None
    /\ sampled = None
    /\ status = "init"

\* the model is stateless between calls: one call from the constructed object
sample_forward_process ==
    /\ op = "init"
    /\ \E a \in Args : \E noise \in Draws(a) :
        \E r \in {SampleForwardProcess(a, noise)} :
           /\ op' = "sample_forward_process"
           /\ args' = a
           /\ gaussian' = noise
           /\ integrate_call' = r.integrate_call
           /\ drift_evals' = r.drift_evals
           /\ data' = r.data
           /\ sampled' = None
           /\ status' = r.status
    /\ UNCHANGED <<vars_sp, vars_gp, vars_ds, vars_alg, vars_mod, vars_rr, vars_vel>>

sample ==
    /\ op = "init"
    /\ \E a \in Args : \E noise \in Draws(a) :
        \E r \in {SampleForwardProcess(a, noise)} :
           /\ op' = "sample"
           /\ args' = a
           /\ gaussian' = noise
           /\ integrate_call' = r.integrate_call
           /\ drift_evals' = r.drift_evals
           /\ data' = r.data
           /\ sampled' = Sample(r)
           /\ status' = r.status
    /\ UNCHANGED <<vars_sp, vars_gp, vars_ds, vars_alg, vars_mod, vars_rr, vars_vel>>

NextFlow == sample_forward_process \/ sample

\* ------------------------------------------------------- StochasticProcess
\* times of the probability path are multiples of 1 / TDen
TDen == 2

\* the multi-index (0-based) of the flat position k (0-based) in shape
RECURSIVE Unravel(_, _)
Unravel(k, shape) ==
    IF shape = <<>> THEN <<>>
    ELSE <<k \div Prod(Tail(shape))>> \o Unravel(k % Prod(Tail(shape)), Tail(shape))

\* t[(...,) + (None,) * (len(shape) - len(t.shape))].expand(shape): t gets
\* trailing dimensions of size 1 and is then broadcast to shape
ExpandLeadingFits(t, shape) ==
    \A i \in 1..Len(t.shape) : t.shape[i] \in {1, shape[i]}

ExpandByColumn(t, shape) ==
    Tensor(shape,
           [k \in 1..Prod(shape) |->
               LET idx == Unravel(k - 1, shape)
               IN t.data[Offset(t.shape,
                                [i \in 1..Len(t.shape) |->
                                    IF t.shape[i] = 1 THEN 0
                                    ELSE idx[Len(shape) - i + 1] % t.shape[i]]) + 1]])

ExpandLeading(t, shape) ==
    Tensor(shape,
           [k \in 1..Prod(shape) |->
               LET idx == Unravel(k - 1, shape)
               IN t.data[Offset(t.shape,
                                [i \in 1..Len(t.shape) |->
                                    IF t.shape[i] = 1 THEN 0 ELSE idx[i]]) + 1]])

\* torch broadcasting of two shapes of equal length
Broadcastable(s1, s2) ==
    /\ Len(s1) = Len(s2)
    /\ \A i \in 1..Len(s1) : s1[i] = s2[i] \/ s1[i] = 1 \/ s2[i] = 1

BroadcastShape(s1, s2) == [i \in 1..Len(s1) |-> IF s1[i] = 1 THEN s2[i] ELSE s1[i]]

\* x * (1 - t) and x * t on equal shapes; 1 - t is (TDen - t) / TDen
TimesOneMinus(x, t) ==
    Tensor(x.shape, [k \in 1..Len(x.data) |-> (x.data[k] * (TDen - t.data[k])) \div TDen])

Times(x, t) ==
    Tensor(x.shape, [k \in 1..Len(x.data) |-> (x.data[k] * t.data[k]) \div TDen])

SpRaise(e) == [status |-> e, value |-> None]

\* StochasticProcess.mean; kind is the type of x0
Mean(kind, t, x0, x1) ==
    IF kind = "Tensor"
    THEN IF Len(x0.shape) > Len(t.shape)
         THEN IF ExpandLeadingFits(t, x0.shape)
              THEN LET te == ExpandLeading(t, x0.shape)
                   IN [status |-> "ok", value |-> Add(TimesOneMinus(x0, te), Times(x1, te))]
              ELSE SpRaise("RuntimeError")
         ELSE IF Broadcastable(x0.shape, t.shape)
              THEN LET shape == BroadcastShape(x0.shape, t.shape)
                       te == ExpandLeading(t, shape)
                       x0e == ExpandLeading(x0, shape)
                       x1e == ExpandLeading(x1, shape)
                   IN [status |-> "ok", value |-> Add(TimesOneMinus(x0e, te), Times(x1e, te))]
              ELSE SpRaise("RuntimeError")
    ELSE IF kind \in {"treetensor", "TensorDict"}
    THEN SpRaise("NotImplementedError")
    ELSE SpRaise("ValueError")

\* ---- the arguments of a call of mean
\* states are multiples of TDen, so that the products with t / TDen are exact
SpShapes == {<<N>> : N \in 1..MaxN} \cup {<<N, XSize>> : N \in 1..MaxN}

SpX0(shape, seed) == Tensor(shape, [k \in 1..Prod(shape) |-> TDen * (seed + k)])

SpX1(shape, seed) == Tensor(shape, [k \in 1..Prod(shape) |-> TDen * (seed + 2 * k + MaxN * XSize)])

SpTimes ==
    {Tensor(<<>>, <<v>>) : v \in 0..TDen}
    \cup UNION {{Tensor(<<N>>, f) : f \in [1..N -> 0..TDen]} : N \in 1..MaxN}

SpArgs ==
    {[kind |-> "Tensor", t |-> t, x0 |-> SpX0(shape, s0), x1 |-> SpX1(shape, s1)] :
        t \in SpTimes, shape \in SpShapes, s0 \in 0..MaxSeed, s1 \in 0..MaxSeed}
    \cup
    {[kind |-> k, t |-> Tensor(<<>>, <<0>>), x0 |-> None, x1 |-> None] :
        k \in {"treetensor", "TensorDict", "other"}}

NoSpArgs == [kind |-> "other", t |-> None, x0 |-> None, x1 |-> None]

InitProcess ==
    /\ sp_op = "init"
    /\ sp_args = NoSpArgs
    /\ sp_result = SpRaise("init")

mean ==
    /\ sp_op = "init"
    /\ \E a \in SpArgs :
        /\ sp_op' = "mean"
        /\ sp_args' = a
        /\ sp_result' = Mean(a.kind, a.t, a.x0, a.x1)
    /\ UNCHANGED <<vars_flow, vars_gp, vars_ds, vars_alg, vars_mod, vars_rr, vars_vel>>

NextProcess == mean

\* --------------------------------------------------------------- GuidedPolicy
FlowTypes ==
    {"OptimalTransportConditionalFlowModel", "IndependentConditionalFlowModel",
     "SchrodingerBridgeConditionalFlowModel"}

\* GuidedPolicy.__init__: the guided model built for config.model_type
GuidedModelOf(type) ==
    IF type = "DiffusionModel" THEN "GuidedDiffusionModel"
    ELSE IF type \in {"OptimalTransportConditionalFlowModel",
                      "IndependentConditionalFlowModel"}
    THEN "GuidedConditionalFlowModel"
    ELSE IF type \in {"SchrodingerBridgeConditionalFlowModel"}
    THEN "GuidedBridgeConditionalFlowModel"
    ELSE "NotImplementedError"

NotPassed == [given |-> FALSE, value |-> 0]

\* one call of a sampler, with the keyword arguments it is given
SamplerCall(sampler, models, x_0, scale, a) ==
    [sampler |-> sampler, base_model |-> models, guided_model |-> models, x_0 |-> x_0,
     t_span |-> a.t_span, condition |-> a.state, batch_size |-> a.batch_size,
     guidance_scale |-> scale, with_grad |-> FALSE, solver_config |-> a.solver_config]

\* lines 206-233: the DiffusionModel branch of GuidedPolicy.sample
DiffusionBranch(a) ==
    IF a.guidance_scale = 0
    THEN <<SamplerCall("base_model.sample", FALSE, None, NotPassed, a)>>
    ELSE IF a.guidance_scale = GDen
    THEN <<SamplerCall("guided_model.sample", FALSE, None, NotPassed, a)>>
    ELSE <<SamplerCall("self.model.sample", TRUE, None,
                       [given |-> TRUE, value |-> a.guidance_scale], a)>>

\* lines 243-272: the flow-model branch, x_0 being the draw of line 241
FlowBranchNoShortcut(a, x_0) ==
    <<SamplerCall("self.model.sample", TRUE, x_0,
                  [given |-> TRUE, value |-> a.guidance_scale], a)>>

FlowBranch(a, x_0) ==
    IF a.guidance_scale = 0
    THEN <<SamplerCall("base_model.sample", FALSE, x_0, NotPassed, a)>>
    ELSE IF a.guidance_scale = GDen
    THEN <<SamplerCall("guided_model.sample", FALSE, x_0, NotPassed, a)>>
    ELSE <<SamplerCall("self.model.sample", TRUE, x_0,
                       [given |-> TRUE, value |-> a.guidance_scale], a)>>

\* line 241: the rows asked of base_model.gaussian_generator
PolicyGaussianRows(a) == a.state.shape[1]

\* GuidedPolicy.sample: the generator draws and the sampler calls it makes
GuidedPolicySample(type, a, seed) ==
    IF type = "DiffusionModel"
    THEN [draws |-> <<>>, calls |-> DiffusionBranch(a)]
    ELSE IF type \in FlowTypes
    THEN LET x_0 == Gaussian(PolicyGaussianRows(a), seed)
         IN [draws |-> <<[batch_size |-> PolicyGaussianRows(a), value |-> x_0]>>,
             calls |-> FlowBranch(a, x_0)]
    ELSE [draws |-> <<>>, calls |-> <<>>]

PolicyStates ==
    {Tensor(<<N, 1>>, [n \in 1..N |-> seed + n]) : N \in 1..MaxN, seed \in Seeds}

PolicyArgs ==
    [state : PolicyStates, batch_size : BatchSizes, guidance_scale : 0..MaxScale,
     solver_config : {"None", "config"}, t_span : {TSpan}]

NoPolicyArgs ==
    [state |-> None, batch_size |-> NotPassed, guidance_scale |-> 0,
     solver_config |-> "None", t_span |-> <<>>]

InitPolicy ==
    /\ gp_op = "unconstructed"
    /\ gp_type = ""
    /\ gp_model = ""
    /\ gp_args = NoPolicyArgs
    /\ gp_draws = <<>>
    /\ gp_calls = <<>>

\* GuidedPolicy.__init__; an unknown model_type raises and builds no policy
GuidedPolicy_init ==
    /\ gp_op = "unconstructed"
    /\ \E type \in {"DiffusionModel", "Unknown"} \cup FlowTypes :
        /\ gp_type' = type
        /\ gp_model' = GuidedModelOf(type)
        /\ gp_op' = IF GuidedModelOf(type) = "NotImplementedError"
                    THEN "NotImplementedError" ELSE "constructed"
    /\ UNCHANGED <<gp_args, gp_draws, gp_calls>>
    /\ UNCHANGED <<vars_flow, vars_sp, vars_ds, vars_alg, vars_mod, vars_rr, vars_vel>>

GuidedPolicy_sample ==
    /\ gp_op = "constructed"
    /\ \E a \in PolicyArgs : \E seed \in Seeds :
        LET r == GuidedPolicySample(gp_type, a, seed)
        IN /\ gp_op' = "sample"
           /\ gp_args' = a
           /\ gp_draws' = r.draws
           /\ gp_calls' = r.calls
    /\ UNCHANGED <<gp_type, gp_model>>
    /\ UNCHANGED <<vars_flow, vars_sp, vars_ds, vars_alg, vars_mod, vars_rr, vars_vel>>

NextPolicy == GuidedPolicy_init \/ GuidedPolicy_sample

\* ------------------------------------------------- GPDataset, D4RLDataset
\* datasets hold 0..MaxLen transitions
MaxLen == 3

\* the value of a field that is the float 0.0 instead of a tensor row
Float0 == [kind |-> "float", row |-> <<>>]

TensorRow(r) == [kind |-> "tensor", row |-> r]

\* GPDataset.__getitem__ of src/grl/datasets/gp.py
GPDataset_getitem_NextRow(d, index) ==
    [status |-> "ok",
     s |-> d.states[(index % d.len) + 1],
     a |-> d.actions[(index % d.len) + 1],
     r |-> d.rewards[(index % d.len) + 1],
     s_ |-> d.next_states[((index + 1) % d.len) + 1],
     d |-> d.is_finished[(index % d.len) + 1],
     fake_a |-> IF d.has_fake_actions
                THEN TensorRow(d.fake_actions[(index % d.len) + 1]) ELSE Float0,
     fake_a_ |-> IF d.has_fake_next_actions
                 THEN TensorRow(d.fake_next_actions[(index % d.len) + 1]) ELSE Float0]

GPDataset_getitem(d, index) ==
    [status |-> "ok",
     s |-> d.states[(index % d.len) + 1],
     a |-> d.actions[(index % d.len) + 1],
     r |-> d.rewards[(index % d.len) + 1],
     s_ |-> d.next_states[(index % d.len) + 1],
     d |-> d.is_finished[(index % d.len) + 1],
     fake_a |-> IF d.has_fake_actions
                THEN TensorRow(d.fake_actions[(index % d.len) + 1]) ELSE Float0,
     fake_a_ |-> IF d.has_fake_next_actions
                 THEN TensorRow(d.fake_next_actions[(index % d.len) + 1]) ELSE Float0]

\* D4RLDataset.__getitem__ of src/generative_rl/datasets/d4rl.py
D4RLDataset_getitem(d, index) ==
    [status |-> "ok",
     s |-> d.states[(index % d.len) + 1],
     a |-> d.actions[(index % d.len) + 1],
     r |-> d.rewards[(index % d.len) + 1],
     s_ |-> d.next_states[(index % d.len) + 1],
     d |-> d.is_finished[(index % d.len) + 1],
     fake_a |-> IF d.has_fake_actions
                THEN TensorRow(d.fake_actions[(index % d.len) + 1]) ELSE Float0,
     fake_a_ |-> IF d.has_fake_next_actions
                 THEN TensorRow(d.fake_next_actions[(index % d.len) + 1]) ELSE Float0]

NoItem ==
    [status |-> "none", s |-> <<>>, a |-> <<>>, r |-> 0, s_ |-> <<>>, d |-> FALSE,
     fake_a |-> Float0, fake_a_ |-> Float0]

\* index % 0 raises
ZeroDivision == [NoItem EXCEPT !.status = "ZeroDivisionError"]

\* a dataset of n transitions; row i of every field is different from row j
Dataset(class, n, seed) ==
    [class |-> class,
     len |-> n,
     states |-> [i \in 1..n |-> <<seed + i>>],
     actions |-> [i \in 1..n |-> <<seed + 2 * i>>],
     rewards |-> [i \in 1..n |-> seed - i],
     next_states |-> [i \in 1..n |-> <<seed + i + 1>>],
     is_finished |-> [i \in 1..n |-> i = n],
     has_fake_actions |-> FALSE,
     has_fake_next_actions |-> FALSE,
     fake_actions |-> <<>>,
     fake_next_actions |-> <<>>]

NoDataset == Dataset("none", 0, 0)

InitData ==
    /\ ds = NoDataset
    /\ ds_index = 0
    /\ ds_item = NoItem

\* the __init__ of a dataset class: the fields are loaded, self.len is their
\* number of rows (0 for an online dataset built without data)
Dataset_init ==
    /\ ds.class = "none"
    /\ \E class \in {"GPDataset", "D4RLDataset"}, n \in 0..MaxLen, seed \in Seeds :
        ds' = Dataset(class, n, seed)
    /\ UNCHANGED <<ds_index, ds_item>>
    /\ UNCHANGED <<vars_flow, vars_sp, vars_gp, vars_alg, vars_mod, vars_rr, vars_vel>>

\* load_fake_actions (and the assignment of both attributes by the trainer):
\* one row of fake actions and of fake next actions per transition
load_fake_actions ==
    /\ ds.class # "none"
    /\ ~ds.has_fake_actions
    /\ \E seed \in Seeds :
        ds' = [ds EXCEPT !.has_fake_actions = TRUE,
                         !.has_fake_next_actions = TRUE,
                         !.fake_actions = [i \in 1..ds.len |-> <<seed + 3 * i>>],
                         !.fake_next_actions = [i \in 1..ds.len |-> <<seed + 3 * i + 1>>]]
    /\ ds_item' = NoItem
    /\ UNCHANGED ds_index
    /\ UNCHANGED <<vars_flow, vars_sp, vars_gp, vars_alg, vars_mod, vars_rr, vars_vel>>

getitem ==
    /\ ds.class # "none"
    /\ \E index \in (0 - MaxLen)..(2 * MaxLen) :
        /\ ds_index' = index
        /\ ds_item' = IF ds.len = 0 THEN ZeroDivision
                      ELSE IF ds.class = "GPDataset" THEN GPDataset_getitem(ds, index)
                      ELSE D4RLDataset_getitem(ds, index)
    /\ UNCHANGED ds
    /\ UNCHANGED <<vars_flow, vars_sp, vars_gp, vars_alg, vars_mod, vars_rr, vars_vel>>

NextData == Dataset_init \/ load_fake_actions \/ getitem

\* ---------------------------------------------------------------- GPAlgorithm
\* config.parameter.<phase>.epochs range over 1..MaxEpochs
MaxEpochs == 2
\* a data loader yields 0 or MaxBatches batches per epoch
MaxBatches == 2
\* train is called at most MaxTrainCalls times on one object
MaxTrainCalls == 2
\* deploy is called at most MaxDeploys times on one object
MaxDeploys == 2

ModelKeys == {"GPPolicy", "GuidedPolicy"}

\* a module held by the ModuleDict; the value of a parameter group is the
\* number of in-place updates it has received
NewModule == [base |-> 0, critic |-> 0, guided |-> 0]

\* the i-th module a copy or a constructor appends to the heap
AddrOf(h, keys, k) ==
    Len(h) + (IF k = "GuidedPolicy" /\ "GPPolicy" \in keys THEN 2 ELSE 1)

ModulesOf(m, h) ==
    (IF "GPPolicy" \in DOMAIN m THEN <<h[m["GPPolicy"]]>> ELSE <<>>)
    \o (IF "GuidedPolicy" \in DOMAIN m THEN <<h[m["GuidedPolicy"]]>> ELSE <<>>)

\* a copy that shares the modules of the ModuleDict
ShallowCopy(m, h) == [model |-> m, heap |-> h]

\* copy.deepcopy(self.model): every module of the ModuleDict is duplicated
DeepCopy(m, h) ==
    [model |-> [k \in DOMAIN m |-> AddrOf(h, DOMAIN m, k)],
     heap |-> h \o ModulesOf(m, h)]

\* the parameter values a ModuleDict reaches
ValuesOf(m, h) == [k \in DOMAIN m |-> h[m[k]]]

\* GPAlgorithm.deploy
Deploy(a, h) ==
    IF "GPPolicy" \notin DOMAIN a.model
    THEN [status |-> "AssertionError: The model must be trained first.",
          model |-> <<>>, heap |-> h]
    ELSE IF "GuidedPolicy" \notin DOMAIN a.model
    THEN [status |-> "AssertionError: The model must be trained first.",
          model |-> <<>>, heap |-> h]
    ELSE [status |-> "ok",
          model |-> DeepCopy(a.model, h).model,
          heap |-> DeepCopy(a.model, h).heap]

\* ---- config.parameter of train
AlgorithmTypes == {"GPO", "GPO_softmax_static", "GPO_softmax_sample", "GPG", "Unknown"}

CriticMethods == {"iql", "in_support_ql", "Unknown"}

EpochConfigs ==
    {[behaviour |-> e, critic |-> e, guided |-> e] : e \in 1..MaxEpochs}
    \cup {[behaviour |-> MaxEpochs, critic |-> 1, guided |-> MaxEpochs]}

Configs ==
    [algorithm_type : AlgorithmTypes,
     method : CriticMethods,
     epochs : EpochConfigs,
     batches : {0, MaxBatches},
     copy_from_basemodel : BOOLEAN]

\* the train epochs a checkpoint restores (none: no checkpoint file)
Checkpoints ==
    {[behaviour |-> 0, critic |-> 0, guided |-> 0],
     [behaviour |-> 1, critic |-> 0, guided |-> 0],
     [behaviour |-> 1, critic |-> 1, guided |-> 1]}

NoConfig ==
    [algorithm_type |-> "Unknown", method |-> "Unknown",
     epochs |-> [behaviour |-> 1, critic |-> 1, guided |-> 1],
     batches |-> 0, copy_from_basemodel |-> FALSE]

NoAlgorithm ==
    [config |-> NoConfig,
     model |-> <<>>,
     behaviour_policy_train_epoch |-> 0,
     critic_train_epoch |-> 0,
     guided_policy_train_epoch |-> 0,
     dataset_fake_actions |-> FALSE,
     dataset_fake_next_actions |-> FALSE,
     train_calls |-> 0]

\* ---- the position of train
At_(phase) == [phase |-> phase, epoch |-> 0, inloop |-> FALSE, batch |-> 0]

\* the order of the phases with critic training ahead of the fake actions
PhaseAfterCriticFirst(phase) ==
    CASE phase = "behaviour" -> "critic"
      [] phase = "critic" -> "fake"
      [] phase = "fake" -> "guided_begin"
      [] phase = "guided_begin" -> "guided"
      [] OTHER -> "idle"

\* the order in which the body of train places its phases
PhaseAfter(phase) ==
    CASE phase = "behaviour" -> "fake"
      [] phase = "fake" -> "critic"
      [] phase = "critic" -> "guided_begin"
      [] phase = "guided_begin" -> "guided"
      [] OTHER -> "idle"

\* ---- what the running call of train did: the time of the first and of the
\* last occurrence of every kind of step (0: did not occur)
EventKinds ==
    {"behaviour_update", "generate_fake_action", "attach", "critic_batch",
     "critic_update", "copy_from_basemodel", "behaviour_policy_sample",
     "guided_update"}

NoEvents ==
    [status |-> "none", tick |-> 0,
     first |-> [k \in EventKinds |-> 0], last |-> [k \in EventKinds |-> 0]]

Record(e, kind) ==
    [e EXCEPT !.tick = @ + 1,
              !.first[kind] = IF @ = 0 THEN e.tick + 1 ELSE @,
              !.last[kind] = e.tick + 1]

Raised(e, error) == [e EXCEPT !.status = error]

InitAlgorithm ==
    /\ algo = NoAlgorithm
    /\ heap = <<>>
    /\ agents = <<>>
    /\ deploy_result = "none"
    /\ pc = At_("new")
    /\ events = NoEvents

others_alg == <<vars_flow, vars_sp, vars_gp, vars_ds, vars_mod, vars_rr, vars_vel>>

\* GPAlgorithm.__init__: a model that is passed is kept as it is, whatever
\* its keys; without it both modules are built and a checkpoint may be loaded
GPAlgorithm_init ==
    /\ pc.phase = "new"
    /\ \E config \in Configs :
        \/ \E keys \in SUBSET ModelKeys :
            /\ heap' = [i \in 1..Cardinality(keys) |-> NewModule]
            /\ algo' = [NoAlgorithm EXCEPT
                           !.config = config,
                           !.model = [k \in keys |-> AddrOf(<<>>, keys, k)]]
        \/ \E checkpoint \in Checkpoints :
            /\ heap' = <<[base |-> checkpoint.behaviour,
                          critic |-> checkpoint.critic,
                          guided |-> checkpoint.guided], NewModule>>
            /\ algo' = [NoAlgorithm EXCEPT
                           !.config = config,
                           !.model = [k \in ModelKeys |-> AddrOf(<<>>, ModelKeys, k)],
                           !.behaviour_policy_train_epoch = checkpoint.behaviour,
                           !.critic_train_epoch = checkpoint.critic,
                           !.guided_policy_train_epoch = checkpoint.guided]
    /\ pc' = At_("idle")
    /\ UNCHANGED <<agents, deploy_result, events>>
    /\ UNCHANGED others_alg

\* train up to the construction of the first optimizer
train_begin ==
    /\ pc.phase = "idle"
    /\ algo.train_calls < MaxTrainCalls
    /\ algo' = [algo EXCEPT !.train_calls = @ + 1]
    /\ IF "GPPolicy" \in DOMAIN algo.model
       THEN /\ pc' = At_("behaviour")
            /\ events' = [NoEvents EXCEPT !.status = "running"]
       ELSE /\ pc' = pc
            /\ events' = [NoEvents EXCEPT !.status = "KeyError"]
    /\ UNCHANGED <<heap, agents, deploy_result>>
    /\ UNCHANGED others_alg

\* the head of the behaviour policy loop
behaviour_policy_epoch ==
    /\ pc.phase = "behaviour"
    /\ ~pc.inloop
    /\ pc' = IF pc.epoch >= algo.config.epochs.behaviour
             THEN At_(PhaseAfter("behaviour"))
             ELSE IF algo.behaviour_policy_train_epoch >= pc.epoch
             THEN [pc EXCEPT !.epoch = @ + 1]
             ELSE [pc EXCEPT !.inloop = TRUE, !.batch = 0]
    /\ UNCHANGED <<algo, heap, agents, deploy_result, events>>
    /\ UNCHANGED others_alg

\* one batch of the behaviour policy loop, or the end of the epoch
behaviour_policy_step ==
    /\ pc.phase = "behaviour"
    /\ pc.inloop
    /\ IF pc.batch < algo.config.batches
       THEN /\ heap' = [heap EXCEPT ![algo.model["GPPolicy"]].base = @ + 1]
            /\ algo' = [algo EXCEPT !.behaviour_policy_train_epoch = pc.epoch]
            /\ events' = Record(events, "behaviour_update")
            /\ pc' = [pc EXCEPT !.batch = @ + 1]
       ELSE /\ pc' = [pc EXCEPT !.inloop = FALSE, !.epoch = @ + 1]
            /\ UNCHANGED <<algo, heap, events>>
    /\ UNCHANGED <<agents, deploy_result>>
    /\ UNCHANGED others_alg

\* the fake actions of the whole dataset
make_fake_action ==
    /\ pc.phase = "fake"
    /\ IF algo.config.algorithm_type \in {"GPO_softmax_static"}
       THEN /\ events' = Record(Record(events, "generate_fake_action"), "attach")
            /\ algo' = [algo EXCEPT !.dataset_fake_actions = TRUE,
                                    !.dataset_fake_next_actions = TRUE]
       ELSE UNCHANGED <<algo, events>>
    /\ pc' = At_(PhaseAfter("fake"))
    /\ UNCHANGED <<heap, agents, deploy_result>>
    /\ UNCHANGED others_alg

\* the head of the critic loop
critic_epoch ==
    /\ pc.phase = "critic"
    /\ ~pc.inloop
    /\ pc' = IF pc.epoch >= algo.config.epochs.critic
             THEN At_(PhaseAfter("critic"))
             ELSE IF algo.critic_train_epoch >= pc.epoch
             THEN [pc EXCEPT !.epoch = @ + 1]
             ELSE [pc EXCEPT !.inloop = TRUE, !.batch = 0]
    /\ UNCHANGED <<algo, heap, agents, deploy_result, events>>
    /\ UNCHANGED others_alg

\* one batch of the critic loop, or the end of the epoch
critic_step ==
    /\ pc.phase = "critic"
    /\ pc.inloop
    /\ IF pc.batch < algo.config.batches
       THEN IF algo.config.method = "iql"
            THEN /\ heap' = [heap EXCEPT ![algo.model["GPPolicy"]].critic = @ + 2]
                 /\ algo' = [algo EXCEPT !.critic_train_epoch = pc.epoch]
                 /\ events' = Record(Record(events, "critic_batch"), "critic_update")
                 /\ pc' = [pc EXCEPT !.batch = @ + 1]
            ELSE IF algo.config.method = "in_support_ql"
            THEN /\ heap' = [heap EXCEPT ![algo.model["GPPolicy"]].critic = @ + 1]
                 /\ algo' = [algo EXCEPT !.critic_train_epoch = pc.epoch]
                 /\ events' = Record(Record(events, "critic_batch"), "critic_update")
                 /\ pc' = [pc EXCEPT !.batch = @ + 1]
            ELSE /\ events' = Raised(Record(events, "critic_batch"), "NotImplementedError")
                 /\ pc' = At_("idle")
                 /\ UNCHANGED <<algo, heap>>
       ELSE /\ pc' = [pc EXCEPT !.inloop = FALSE, !.epoch = @ + 1]
            /\ UNCHANGED <<algo, heap, events>>
    /\ UNCHANGED <<agents, deploy_result>>
    /\ UNCHANGED others_alg

\* the start of the guided policy phase
guided_policy_begin ==
    /\ pc.phase = "guided_begin"
    /\ IF ~(algo.guided_policy_train_epoch > 0) /\ algo.config.copy_from_basemodel
       THEN /\ heap' = [heap EXCEPT ![algo.model["GPPolicy"]].guided =
                                        heap[algo.model["GPPolicy"]].base]
            /\ events' = Record(events, "copy_from_basemodel")
       ELSE UNCHANGED <<heap, events>>
    /\ pc' = At_(PhaseAfter("guided_begin"))
    /\ UNCHANGED <<algo, agents, deploy_result>>
    /\ UNCHANGED others_alg

\* the head of the guided policy loop; train returns when it is left
guided_policy_epoch ==
    /\ pc.phase = "guided"
    /\ ~pc.inloop
    /\ IF pc.epoch >= algo.config.epochs.guided
       THEN /\ pc' = At_(PhaseAfter("guided"))
            /\ events' = [events EXCEPT !.status = "ok"]
       ELSE /\ pc' = IF algo.guided_policy_train_epoch >= pc.epoch
                     THEN [pc EXCEPT !.epoch = @ + 1]
                     ELSE [pc EXCEPT !.inloop = TRUE, !.batch = 0]
            /\ UNCHANGED events
    /\ UNCHANGED <<algo, heap, agents, deploy_result>>
    /\ UNCHANGED others_alg

\* one batch of the guided policy loop, or the end of the epoch
guided_policy_step ==
    /\ pc.phase = "guided"
    /\ pc.inloop
    /\ IF pc.batch < algo.config.batches
       THEN IF algo.config.algorithm_type = "Unknown"
            THEN /\ events' = Raised(events, "NotImplementedError")
                 /\ pc' = At_("idle")
                 /\ UNCHANGED <<algo, heap>>
            ELSE /\ heap' = [heap EXCEPT ![algo.model["GPPolicy"]].guided = @ + 1]
                 /\ IF algo.config.algorithm_type = "GPG"
                    THEN /\ events' = Raised(Record(events, "guided_update"), "NameError")
                         /\ pc' = At_("idle")
                         /\ UNCHANGED algo
                    ELSE /\ events' =
                              IF algo.config.algorithm_type = "GPO_softmax_sample"
                              THEN Record(Record(events, "behaviour_policy_sample"),
                                          "guided_update")
                              ELSE Record(events, "guided_update")
                         /\ algo' = [algo EXCEPT !.guided_policy_train_epoch = pc.epoch]
                         /\ pc' = [pc EXCEPT !.batch = @ + 1]
       ELSE /\ pc' = [pc EXCEPT !.inloop = FALSE, !.epoch = @ + 1]
            /\ UNCHANGED <<algo, heap, events>>
    /\ UNCHANGED <<agents, deploy_result>>
    /\ UNCHANGED others_alg

\* GPAlgorithm.deploy, called while train is not running; an agent is kept
\* with the parameter values its model had when it was returned
deploy ==
    /\ pc.phase = "idle"
    /\ Len(agents) < MaxDeploys
    /\ \E r \in {Deploy(algo, heap)} :
        /\ deploy_result' = r.status
        /\ heap' = r.heap
        /\ agents' = IF r.status = "ok"
                     THEN Append(agents, [model |-> r.model,
                                          deployed |-> ValuesOf(algo.model, heap)])
                     ELSE agents
    /\ UNCHANGED <<algo, pc, events>>
    /\ UNCHANGED others_alg

NextAlgorithm ==
    \/ GPAlgorithm_init
    \/ train_begin
    \/ behaviour_policy_epoch
    \/ behaviour_policy_step
    \/ make_fake_action
    \/ critic_epoch
    \/ critic_step
    \/ guided_policy_begin
    \/ guided_policy_epoch
    \/ guided_policy_step
    \/ deploy

\* ------------------------------------------------------------------- modules
\* layer_num ranges over -1..MaxLayers
MaxLayers == 3
\* in_channels, hidden_channels and out_channels range over 1..MaxChannels
MaxChannels == 2
\* dim ranges over None and 1..MaxDim
MaxDim == 3

\* an optional argument that was left at None
NotGiven == [given |-> FALSE, value |-> ""]

Given(v) == [given |-> TRUE, value |-> v]

NoDim == [given |-> FALSE, value |-> 0]

\* the table norm_func of build_normalization
NormFunc ==
    [key \in {"BN1", "BN2", "LN", "IN1", "IN2", "SyncBN"} |->
        CASE key = "BN1" -> "BatchNorm1d"
          [] key = "BN2" -> "BatchNorm2d"
          [] key = "LN" -> "LayerNorm"
          [] key = "IN1" -> "InstanceNorm1d"
          [] key = "IN2" -> "InstanceNorm2d"
          [] OTHER -> "SyncBatchNorm"]

Returned(class) == [status |-> "ok", class |-> class]

Failed(error) == [status |-> error, class |-> ""]

\* the key that build_normalization looks up; "" when it raised before
NormKey(norm_type, dim) ==
    IF ~dim.given
    THEN norm_type
    ELSE IF norm_type \in {"BN", "IN"}
    THEN norm_type \o ToString(dim.value)
    ELSE IF norm_type \in {"LN", "SyncBN"}
    THEN norm_type
    ELSE ""

\* build_normalization(norm_type, dim)
build_normalization_of(norm_type, dim) ==
    IF dim.given /\ norm_type \notin {"BN", "IN"} /\ norm_type \notin {"LN", "SyncBN"}
    THEN Failed("NotImplementedError")
    ELSE IF NormKey(norm_type, dim) \in DOMAIN NormFunc
    THEN Returned(NormFunc[NormKey(norm_type, dim)])
    ELSE Failed("KeyError")

\* ---- the layers of a block
Linear(i, o) == [kind |-> "Linear", features |-> <<i, o>>]

Norm(class, n) == [kind |-> class, features |-> <<n>>]

Activation == [kind |-> "Activation", features |-> <<>>]

Dropout == [kind |-> "Dropout", features |-> <<>>]

Identity == [kind |-> "Identity", features |-> <<>>]

\* channels = [in_channels] + [hidden_channels] * (layer_num - 1) + [out_channels]
ChannelsOf(a) ==
    <<a.in_channels>> \o [i \in 1..(a.layer_num - 1) |-> a.hidden_channels]
    \o <<a.out_channels>>

\* does the call reach a build_normalization that raises
NormRaises(a) ==
    /\ a.norm_type.given
    /\ build_normalization_of(a.norm_type.value, Given(1)).status # "ok"

NormLayer(a, n) ==
    IF a.norm_type.given
    THEN <<Norm(build_normalization_of(a.norm_type.value, Given(1)).class, n)>>
    ELSE <<>>

ActivationLayer(a) == IF a.activation.given THEN <<Activation>> ELSE <<>>

DropoutLayer(a) == IF a.use_dropout THEN <<Dropout>> ELSE <<>>

\* a front layer with the activation ahead of the normalization
FrontLayerActivationFirst(a, i, o) ==
    <<Linear(i, o)>> \o ActivationLayer(a) \o NormLayer(a, o) \o DropoutLayer(a)

\* one pass of the loop over zip(channels[:-2], channels[1:-1])
FrontLayer(a, i, o) ==
    <<Linear(i, o)>> \o NormLayer(a, o) \o ActivationLayer(a) \o DropoutLayer(a)

RECURSIVE FrontLayers(_, _, _)
FrontLayers(a, channels, k) ==
    IF k > Len(channels) - 2
    THEN <<>>
    ELSE FrontLayer(a, channels[k], channels[k + 1]) \o FrontLayers(a, channels, k + 1)

\* the last layer and what follows it
LastLayer(a, channels) ==
    <<Linear(channels[Len(channels) - 1], channels[Len(channels)])>>
    \o (IF a.output_norm THEN NormLayer(a, channels[Len(channels)]) ELSE <<>>)
    \o (IF a.output_activation THEN ActivationLayer(a) \o DropoutLayer(a) ELSE <<>>)

Built(layers) == [status |-> "ok", layers |-> layers]

NotBuilt(error) == [status |-> error, layers |-> <<>>]

\* MLP(in_channels, hidden_channels, out_channels, layer_num, ...)
MLP_of(a) ==
    IF a.layer_num < 0
    THEN NotBuilt("AssertionError")
    ELSE IF a.layer_num = 0
    THEN Built(<<Identity>>)
    ELSE IF NormRaises(a) /\ (a.layer_num > 1 \/ a.output_norm)
    THEN NotBuilt(build_normalization_of(a.norm_type.value, Given(1)).status)
    ELSE Built(FrontLayers(a, ChannelsOf(a), 1) \o LastLayer(a, ChannelsOf(a)))

\* ---- the arguments of a call
NormTypes == {"BN", "LN", "IN", "SyncBN", "BN1", "IN2", "GN"}

Dims == {NoDim} \cup {[given |-> TRUE, value |-> d] : d \in 1..MaxDim}

NormArgs == [norm_type : NormTypes, dim : Dims]

MLPArgs ==
    [in_channels : 1..MaxChannels,
     hidden_channels : 1..MaxChannels,
     out_channels : 1..MaxChannels,
     layer_num : (0 - 1)..MaxLayers,
     activation : {NotGiven, Given("ReLU")},
     norm_type : {NotGiven, Given("BN"), Given("LN"), Given("GN")},
     use_dropout : BOOLEAN,
     output_activation : BOOLEAN,
     output_norm : BOOLEAN]

NoModArgs == [norm_type |-> "", dim |-> NoDim]

NoModResult == [status |-> "none"]

InitModules ==
    /\ mod_op = "init"
    /\ mod_args = NoModArgs
    /\ mod_result = NoModResult

others_mod == <<vars_flow, vars_sp, vars_gp, vars_ds, vars_alg, vars_rr, vars_vel>>

build_normalization ==
    /\ mod_op = "init"
    /\ \E a \in NormArgs :
        /\ mod_args' = a
        /\ mod_result' = build_normalization_of(a.norm_type, a.dim)
    /\ mod_op' = "build_normalization"
    /\ UNCHANGED others_mod

MLP ==
    /\ mod_op = "init"
    /\ \E a \in MLPArgs :
        /\ mod_args' = a
        /\ mod_result' = MLP_of(a)
    /\ mod_op' = "MLP"
    /\ UNCHANGED others_mod

NextModules == build_normalization \/ MLP

\* --------------------------------------------------------------- return_range
\* dataset["rewards"] and dataset["terminals"] hold 0..MaxSteps entries
MaxSteps == 4
\* a reward is -1 or MaxReward
MaxReward == 2
\* max_episode_steps ranges over 1..MaxEpisodeSteps
MaxEpisodeSteps == 3

RECURSIVE SumOf(_)
SumOf(s) == IF s = <<>> THEN 0 ELSE Head(s) + SumOf(Tail(s))

\* min(returns) and max(returns) of a non-empty list
MinOf(s) == CHOOSE x \in {s[i] : i \in 1..Len(s)} : \A i \in 1..Len(s) : x <= s[i]

MaxOf(s) == CHOOSE x \in {s[i] : i \in 1..Len(s)} : \A i \in 1..Len(s) : x >= s[i]

\* returns, lengths = [], []; ep_ret, ep_len = 0.0, 0
LoopStart == [returns |-> <<>>, lengths |-> <<>>, ep_ret |-> 0, ep_len |-> 0]

\* a loop body that closes an episode without starting the next one at 0
LoopBodyNoReset(st, r, d, max_episode_steps) ==
    IF d \/ st.ep_len + 1 = max_episode_steps
    THEN [returns |-> Append(st.returns, st.ep_ret + r),
          lengths |-> Append(st.lengths, st.ep_len + 1),
          ep_ret |-> st.ep_ret + r,
          ep_len |-> st.ep_len + 1]
    ELSE [st EXCEPT !.ep_ret = st.ep_ret + r, !.ep_len = st.ep_len + 1]

\* the body of the loop over zip(rewards, terminals)
LoopBody(st, r, d, max_episode_steps) ==
    IF d \/ st.ep_len + 1 = max_episode_steps
    THEN [returns |-> Append(st.returns, st.ep_ret + r),
          lengths |-> Append(st.lengths, st.ep_len + 1),
          ep_ret |-> 0,
          ep_len |-> 0]
    ELSE [st EXCEPT !.ep_ret = st.ep_ret + r, !.ep_len = st.ep_len + 1]

\* zip stops at the shorter of the two lists
ZipLen(rewards, terminals) ==
    IF Len(rewards) <= Len(terminals) THEN Len(rewards) ELSE Len(terminals)

RECURSIVE Loop(_, _, _, _, _)
Loop(st, rewards, terminals, max_episode_steps, k) ==
    IF k > ZipLen(rewards, terminals)
    THEN st
    ELSE Loop(LoopBody(st, rewards[k], terminals[k], max_episode_steps),
              rewards, terminals, max_episode_steps, k + 1)

\* an end of the loop that counts the unfinished episode among the returns
AfterLoopWithIncomplete(st) ==
    [st EXCEPT !.returns = Append(@, st.ep_ret), !.lengths = Append(@, st.ep_len)]

\* lengths.append(ep_len) after the loop; the unfinished return is dropped
AfterLoop(st) == [st EXCEPT !.lengths = Append(@, st.ep_len)]

\* return_range(dataset, max_episode_steps)
return_range_of(rewards, terminals, max_episode_steps) ==
    LET st == AfterLoop(Loop(LoopStart, rewards, terminals, max_episode_steps, 1))
    IN  IF SumOf(st.lengths) # Len(rewards)
        THEN [status |-> "AssertionError", min |-> 0, max |-> 0,
              returns |-> st.returns, lengths |-> st.lengths]
        ELSE IF st.returns = <<>>
        THEN [status |-> "ValueError", min |-> 0, max |-> 0,
              returns |-> st.returns, lengths |-> st.lengths]
        ELSE [status |-> "ok", min |-> MinOf(st.returns), max |-> MaxOf(st.returns),
              returns |-> st.returns, lengths |-> st.lengths]

\* ---- the arguments of a call
SeqsUpTo(S, n) == UNION {[1..k -> S] : k \in 0..n}

RewardLists == SeqsUpTo({0 - 1, MaxReward}, MaxSteps)

TerminalLists == SeqsUpTo(BOOLEAN, MaxSteps)

ReturnRangeArgs ==
    [rewards : RewardLists, terminals : TerminalLists,
     max_episode_steps : 1..MaxEpisodeSteps]

NoReturnRangeArgs == [rewards |-> <<>>, terminals |-> <<>>, max_episode_steps |-> 1]

NoReturnRange ==
    [status |-> "none", min |-> 0, max |-> 0, returns |-> <<>>, lengths |-> <<>>]

InitReturns ==
    /\ rr_op = "init"
    /\ rr_args = NoReturnRangeArgs
    /\ rr_result = NoReturnRange

others_rr == <<vars_flow, vars_sp, vars_gp, vars_ds, vars_alg, vars_mod, vars_vel>>

return_range ==
    /\ rr_op = "init"
    /\ \E a \in ReturnRangeArgs :
        /\ rr_args' = a
        /\ rr_result' = return_range_of(a.rewards, a.terminals, a.max_episode_steps)
    /\ rr_op' = "return_range"
    /\ UNCHANGED others_rr

NextReturns == return_range

\* ------------------------------------------------- StochasticProcess.velocity
\* x - y on equal shapes
Sub(x, y) == Tensor(x.shape, [k \in 1..Len(x.data) |-> x.data[k] - y.data[k]])

\* a velocity that points from x1 to x0
VelocityReversed(t, x0, x1, condition) == Sub(x0, x1)

\* StochasticProcess.velocity
Velocity(t, x0, x1, condition) == Sub(x1, x0)

\* ---- the arguments: a pair of times of one shape, the second one being the
\* first one moved by d (modulo the times of the path), two states of one
\* shape and a condition
Moved(t, d) == Tensor(t.shape, [k \in 1..Len(t.data) |-> (t.data[k] + d) % (TDen + 1)])

VelocityArgs ==
    {[t1 |-> t, t2 |-> Moved(t, d), x0 |-> SpX0(shape, s), x1 |-> SpX1(shape, s),
      condition |-> c] :
        t \in SpTimes, d \in 0..TDen, shape \in SpShapes, s \in 0..MaxSeed,
        c \in {None, SpX0(<<1>>, 0)}}

NoVelocityArgs == [t1 |-> None, t2 |-> None, x0 |-> None, x1 |-> None, condition |-> None]

NoVelocity == [velocity |-> None, mean1 |-> SpRaise("init"), mean2 |-> SpRaise("init")]

InitVelocity ==
    /\ vel_op = "init"
    /\ vel_args = NoVelocityArgs
    /\ vel_result = NoVelocity

others_vel == <<vars_flow, vars_sp, vars_gp, vars_ds, vars_alg, vars_mod, vars_rr>>

\* velocity at time t1 and the mean of the path at the times t1 and t2
velocity ==
    /\ vel_op = "init"
    /\ \E a \in VelocityArgs :
        /\ vel_args' = a
        /\ vel_result' = [velocity |-> Velocity(a.t1, a.x0, a.x1, a.condition),
                          mean1 |-> Mean("Tensor", a.t1, a.x0, a.x1),
                          mean2 |-> Mean("Tensor", a.t2, a.x0, a.x1)]
    /\ vel_op' = "velocity"
    /\ UNCHANGED others_vel

NextVelocity == velocity

\* ----------------------------------------------------------- specifications
Init ==
    /\ InitFlow /\ InitProcess /\ InitPolicy /\ InitData
    /\ InitAlgorithm /\ InitModules /\ InitReturns /\ InitVelocity

SpecFlow == Init /\ [][NextFlow]_vars

SpecProcess == Init /\ [][NextProcess]_vars

SpecPolicy == Init /\ [][NextPolicy]_vars

SpecData == Init /\ [][NextData]_vars

SpecAlgorithm == Init /\ [][NextAlgorithm]_vars

SpecModules == Init /\ [][NextModules]_vars

SpecReturns == Init /\ [][NextReturns]_vars

SpecVelocity == Init /\ [][NextVelocity]_vars

\* ------------------------------------------------------------------ claims
Ok == status = "ok"

B_ == ExtraBatchSize(args.batch_size)

\* C1: every drift value handed to the solver is (1 - g) * base + g * guided
\* of the two networks at the same t, x and condition: the base drift at
\* scale 0, the guided drift at scale 1, base + g * (guided - base) at every
\* other scale, scales above 1 included.
C1_DriftInterpolates ==
    Ok =>
        \A i \in 1..Len(drift_evals) :
            LET e == drift_evals[i]
                g == args.guidance_scale
                b == ModelEval(args.base_model, e.t, e.x, integrate_call.condition)
                gd == ModelEval(args.guided_model, e.t, e.x, integrate_call.condition)
            IN /\ e.value.shape = e.x.shape
               /\ \A k \in 1..Len(e.x.data) :
                      e.value.data[k] = b.data[k] + (g * (gd.data[k] - b.data[k])) \div GDen
               /\ (g = 0 => e.value = b)
               /\ (g = GDen => e.value = gd)

C1_Witness ==
    /\ Ok
    /\ args.guidance_scale > GDen
    /\ ~IsNone(args.condition)
    /\ Len(drift_evals) > 1
    /\ drift_evals[2].value
           # ModelEval(args.base_model, drift_evals[2].t, drift_evals[2].x,
                       integrate_call.condition)

\* the trajectory of the single initial state x_0[n] under condition[n]
RowTrajectory(n) ==
    Integrate([guidance_scale |-> args.guidance_scale, base_model |-> args.base_model,
               guided_model |-> args.guided_model,
               condition |-> Tensor(<<1>> \o Tail(args.condition.shape),
                                    Index0(args.condition, n).data)],
              Tensor(<<1, XSize>>, Index0(args.x_0, n).data), args.t_span)

\* C2: with x_0 and a condition of N rows and an extra batch size B, the slice
\* [:, b, n] of the (T, B, N, D) result is the trajectory that started from
\* x_0[n] and was integrated with condition[n], for every b < B and n < N.
C2_SliceIsSampleOfRow ==
    (Ok /\ ~IsNone(args.x_0) /\ ~IsNone(args.condition) /\ args.batch_size.given) =>
        \A b \in 0..(B_ - 1) : \A n \in 0..(args.x_0.shape[1] - 1) :
            \A t \in 0..(Len(args.t_span) - 1) : \A d \in 0..(XSize - 1) :
                At(data, <<t, b, n, d>>) = At(RowTrajectory(n), <<t, 0, d>>)

\* C3: sample returns the last time step of the trajectory that
\* sample_forward_process returns for the same arguments and draws; its shape
\* is the trajectory's without the leading T.
C3_SampleIsFinalState ==
    (op = "sample" /\ Ok) =>
        LET T == data.shape[1]
            w == Prod(Tail(data.shape))
        IN /\ data = SampleForwardProcess(args, gaussian).data
           /\ sampled.shape = Tail(data.shape)
           /\ Len(sampled.data) = w
           /\ \A j \in 1..w : sampled.data[j] = data.data[(T - 1) * w + j]

C3_Witness ==
    /\ op = "sample"
    /\ Ok
    /\ Len(data.shape) = 4
    /\ sampled # Index0(data, 0)

\* C4: with x_0 of N rows the result has shape (T, N, D) when batch_size is
\* omitted and (T, B, N, D) when an extra batch size B is given.
C4_ShapeWithX0 ==
    (Ok /\ ~IsNone(args.x_0)) =>
        data.shape = IF args.batch_size.given
                     THEN <<Len(args.t_span), args.batch_size.value, args.x_0.shape[1], XSize>>
                     ELSE <<Len(args.t_span), args.x_0.shape[1], XSize>>

C4_Witness ==
    /\ Ok
    /\ ~IsNone(args.x_0)
    /\ args.batch_size.given
    /\ args.batch_size.value = MaxB
    /\ args.x_0.shape[1] = 1
    /\ Len(data.shape) = 4

C6_ShapeUnconditional ==
    (Ok /\ IsNone(args.x_0) /\ IsNone(args.condition)) =>
        /\ integrate_call.x0 = gaussian
        /\ integrate_call.x0.shape = <<B_, XSize>>
        /\ Len(data.data) = Len(args.t_span) * B_ * XSize
        /\ data.shape = IF args.batch_size.given
                        THEN <<Len(args.t_span), args.batch_size.value, XSize>>
                        ELSE <<Len(args.t_span), XSize>>

C6_Witness ==
    /\ Ok
    /\ IsNone(args.x_0)
    /\ IsNone(args.condition)
    /\ args.batch_size.given
    /\ args.batch_size.value = MaxB
    /\ Len(data.shape) = 3

\* C7: in each of the three branches that integrate, solver.integrate runs
\* with gradient tracking if and only if with_grad is True, and inside
\* torch.no_grad() whenever with_grad is False.
C7_GradIffWithGrad ==
    SolverIntegrates(args.solver) /\ op # "init" /\ Ok =>
        /\ integrate_call.branch \in {"ODESolver/adjoint", "ODESolver", "DictTensorODESolver"}
        /\ (~integrate_call.no_grad) <=> args.with_grad
        /\ ~args.with_grad => integrate_call.no_grad

C7_Witness ==
    /\ Ok
    /\ args.with_grad
    /\ integrate_call.branch = "ODESolver/adjoint"
    /\ integrate_call.adjoint_params
    /\ ~integrate_call.no_grad

\* the time that applies to batch row i: t itself when t is a scalar
TimeOfRow(t, i) == IF t.shape = <<>> \/ t.shape = <<1>> THEN t.data[1] ELSE t.data[i + 1]

\* C8: mean(t, x0, x1) is x0 * (1 - t) + x1 * t elementwise, the time t[i] of
\* batch row i applying to every component of row i; it is x0 at t = 0 and x1
\* at t = 1.
C8_MeanInterpolates ==
    (sp_op = "mean" /\ sp_result.status = "ok"
        /\ (sp_args.t.shape \in {<<>>, <<sp_args.x0.shape[1]>>})) =>
        LET m == sp_result.value
            x0 == sp_args.x0
            x1 == sp_args.x1
        IN /\ m.shape = x0.shape
           /\ \A k \in 0..(Prod(x0.shape) - 1) :
                  LET idx == Unravel(k, x0.shape)
                      ti == TimeOfRow(sp_args.t, idx[1])
                  IN /\ TDen * At(m, idx) = At(x0, idx) * (TDen - ti) + At(x1, idx) * ti
                     /\ (ti = 0 => At(m, idx) = At(x0, idx))
                     /\ (ti = TDen => At(m, idx) = At(x1, idx))

C8_Witness ==
    /\ sp_op = "mean"
    /\ sp_result.status = "ok"
    /\ sp_args.x0.shape = <<MaxN, XSize>>
    /\ sp_args.t.shape = <<MaxN>>
    /\ sp_args.t.data[1] = 0
    /\ sp_args.t.data[MaxN] = TDen
    /\ Index0(sp_result.value, 0) = Index0(sp_args.x0, 0)
    /\ Index0(sp_result.value, MaxN - 1) = Index0(sp_args.x1, MaxN - 1)

\* C9: GuidedPolicy.sample calls exactly one sampler: base_model.sample at
\* scale 0, guided_model.sample at scale 1, the interpolating model with both
\* networks and the scale otherwise; for the flow-model types one fresh x_0
\* with one row per state row is drawn and passed to the chosen sampler.
C9_OneSamplerByScale ==
    gp_op = "sample" =>
        /\ Len(gp_calls) = 1
        /\ LET c == gp_calls[1]
               g == gp_args.guidance_scale
           IN /\ (g = 0) <=> (c.sampler = "base_model.sample")
              /\ (g = GDen) <=> (c.sampler = "guided_model.sample")
              /\ (g \notin {0, GDen}) <=> (c.sampler = "self.model.sample")
              /\ c.sampler = "self.model.sample" =>
                     /\ c.base_model
                     /\ c.guided_model
                     /\ c.guidance_scale = [given |-> TRUE, value |-> g]
              /\ c.condition = gp_args.state
              /\ gp_type \in FlowTypes =>
                     /\ Len(gp_draws) = 1
                     /\ c.x_0 = gp_draws[1].value
                     /\ c.x_0.shape = <<gp_args.state.shape[1], XSize>>
              /\ gp_type = "DiffusionModel" => (gp_draws = <<>> /\ IsNone(c.x_0))

C9_Witness ==
    /\ gp_op = "sample"
    /\ gp_type = "SchrodingerBridgeConditionalFlowModel"
    /\ gp_args.guidance_scale = GDen
    /\ gp_args.state.shape[1] = MaxN
    /\ Len(gp_calls) = 1
    /\ gp_calls[1].sampler = "guided_model.sample"
    /\ gp_calls[1].x_0.shape[1] = MaxN

\* C10: for a dataset of length len > 0 and any integer index, __getitem__ of
\* both classes takes s, a, r, s_ and d from the one row index % len; fake_a
\* and fake_a_ are that row of the loaded fake (next) actions, or the float
\* 0.0 while none have been loaded.
C10_ItemIsOneRow ==
    (ds_item.status # "none" /\ ds.len > 0) =>
        /\ ds_item.status = "ok"
        /\ \E row \in 1..ds.len :
            /\ \E q \in (0 - MaxLen)..(2 * MaxLen) : ds_index = q * ds.len + (row - 1)
            /\ ds_item.s = ds.states[row]
            /\ ds_item.a = ds.actions[row]
            /\ ds_item.r = ds.rewards[row]
            /\ ds_item.s_ = ds.next_states[row]
            /\ ds_item.d = ds.is_finished[row]
            /\ ds_item.fake_a = IF ds.has_fake_actions
                                THEN TensorRow(ds.fake_actions[row]) ELSE Float0
            /\ ds_item.fake_a_ = IF ds.has_fake_next_actions
                                 THEN TensorRow(ds.fake_next_actions[row]) ELSE Float0

C10_Witness ==
    /\ ds.class = "D4RLDataset"
    /\ ds.len = MaxLen
    /\ ds.has_fake_actions
    /\ ds_index > MaxLen
    /\ ds_item.status = "ok"
    /\ ds_item.fake_a.kind = "tensor"
    /\ ds_item.s = ds.states[ds_index - MaxLen + 1]
\* C11: deploy raises the assertion error "The model must be trained first."
\* unless the model of the algorithm has both keys GPPolicy and GuidedPolicy;
\* an agent that deploy returned keeps, whatever train does to the model of
\* the algorithm afterwards, the parameter values it was deployed with.
C11_DeployCopiesTrainedModel ==
    /\ deploy_result # "none" =>
          /\ deploy_result = "ok" <=> ModelKeys \subseteq DOMAIN algo.model
          /\ deploy_result # "ok" =>
                deploy_result = "AssertionError: The model must be trained first."
    /\ \A i \in 1..Len(agents) :
          ValuesOf(agents[i].model, heap) = agents[i].deployed

\* an agent was deployed and the model of the algorithm was trained afterwards
C11_Witness ==
    /\ Len(agents) > 0
    /\ ValuesOf(algo.model, heap) # agents[1].deployed
    /\ events.first["behaviour_update"] > 0

\* the normalization classes
NormClasses == {NormFunc[key] : key \in DOMAIN NormFunc}

\* the kinds of the layers of the block from the k-th on, up to the next
\* Linear layer
RECURSIVE UpToLinear(_, _)
UpToLinear(layers, k) ==
    IF k > Len(layers) \/ layers[k].kind = "Linear"
    THEN <<>>
    ELSE <<IF layers[k].kind \in NormClasses THEN "Normalization" ELSE layers[k].kind>>
         \o UpToLinear(layers, k + 1)

\* the positions of the Linear layers of the block, in order
RECURSIVE LinearsFrom(_, _)
LinearsFrom(layers, k) ==
    IF k > Len(layers) THEN <<>>
    ELSE (IF layers[k].kind = "Linear" THEN <<k>> ELSE <<>>) \o LinearsFrom(layers, k + 1)

\* what is configured to follow a layer: normalization, activation, dropout
ConfiguredKinds(a) ==
    (IF a.norm_type.given THEN <<"Normalization">> ELSE <<>>)
    \o (IF a.activation.given THEN <<"Activation">> ELSE <<>>)
    \o (IF a.use_dropout THEN <<"Dropout">> ELSE <<>>)

\* C12: a block that MLP returns for layer_num >= 1 has exactly layer_num
\* Linear layers of widths in -> hidden -> ... -> hidden -> out; every Linear
\* layer but the last is followed by the configured normalization, activation
\* and dropout, in this order and by nothing else; after the last one there is
\* no normalization when output_norm is False and neither activation nor
\* dropout when output_activation is False. layer_num = 0 gives the block of
\* one Identity.
C12_MLPLayout ==
    (mod_op = "MLP" /\ mod_result.status = "ok") =>
        LET a == mod_args
            layers == mod_result.layers
            lin == LinearsFrom(layers, 1)
            n == a.layer_num
        IN  IF n = 0
            THEN layers = <<Identity>>
            ELSE /\ Len(lin) = n
                 /\ lin[1] = 1
                 /\ \A i \in 1..n :
                       layers[lin[i]].features =
                           <<IF i = 1 THEN a.in_channels ELSE a.hidden_channels,
                             IF i = n THEN a.out_channels ELSE a.hidden_channels>>
                 /\ \A i \in 1..(n - 1) :
                       UpToLinear(layers, lin[i] + 1) = ConfiguredKinds(a)
                 /\ LET tail == UpToLinear(layers, lin[n] + 1)
                    IN  /\ ~a.output_norm =>
                              \A j \in 1..Len(tail) : tail[j] \in {"Activation", "Dropout"}
                        /\ ~a.output_activation =>
                              \A j \in 1..Len(tail) : tail[j] \notin {"Activation", "Dropout"}

\* a block of several layers with normalization, activation and dropout
\* configured and both output switches off
C12_Witness ==
    /\ mod_op = "MLP"
    /\ mod_result.status = "ok"
    /\ mod_args.layer_num = MaxLayers
    /\ mod_args.norm_type.given
    /\ mod_args.activation.given
    /\ mod_args.use_dropout
    /\ ~mod_args.output_norm
    /\ ~mod_args.output_activation
    /\ mod_args.in_channels # mod_args.hidden_channels
    /\ mod_args.hidden_channels # mod_args.out_channels

\* the normalization classes that belong to a supported norm_type
ClassesOfType(norm_type) ==
    CASE norm_type = "BN" -> {"BatchNorm1d", "BatchNorm2d"}
      [] norm_type = "IN" -> {"InstanceNorm1d", "InstanceNorm2d"}
      [] norm_type = "LN" -> {"LayerNorm"}
      [] OTHER -> {"SyncBatchNorm"}

\* C13: build_normalization returns the normalization class of its norm_type
\* for every norm_type in BN, LN, IN, SyncBN, whether dim is passed or not;
\* for any other norm_type it raises NotImplementedError when dim is passed
\* and KeyError when it is not.
C13_NormalizationByType ==
    mod_op = "build_normalization" =>
        IF mod_args.norm_type \in {"BN", "LN", "IN", "SyncBN"}
        THEN /\ mod_result.status = "ok"
             /\ mod_result.class \in ClassesOfType(mod_args.norm_type)
        ELSE mod_result.status =
                 IF mod_args.dim.given THEN "NotImplementedError" ELSE "KeyError"

\* the end of the episode before step i, for a set C of episode ends
PrevEnd(C, i) ==
    CHOOSE p \in {0} \cup C : p < i /\ \A c \in {0} \cup C : c < i => c <= p

\* C is the set of the steps that close an episode: those with the terminal
\* flag set and those at which the episode reaches max_episode_steps
IsEpisodeEnds(C, a) ==
    \A i \in 1..Len(a.rewards) :
        i \in C <=> (a.terminals[i] \/ i - PrevEnd(C, i) = a.max_episode_steps)

\* the summed rewards of the episode that step c closes
EpisodeReturn(C, a, c) ==
    SumOf(SubSeq(a.rewards, PrevEnd(C, c) + 1, c))

\* C14: the range that return_range returns is (min, max) of the summed
\* rewards of the episodes closed by a terminal flag or by reaching
\* max_episode_steps; the steps after the last closed episode count for
\* neither, and min <= max.
C14_RangeOfClosedEpisodes ==
    (rr_op = "return_range" /\ rr_result.status = "ok") =>
        /\ rr_result.min <= rr_result.max
        /\ \E C \in SUBSET (1..Len(rr_args.rewards)) : IsEpisodeEnds(C, rr_args)
        /\ \A C \in SUBSET (1..Len(rr_args.rewards)) :
              IsEpisodeEnds(C, rr_args) =>
                  /\ C # {}
                  /\ \E c \in C : rr_result.min = EpisodeReturn(C, rr_args, c)
                  /\ \E c \in C : rr_result.max = EpisodeReturn(C, rr_args, c)
                  /\ \A c \in C :
                        /\ rr_result.min <= EpisodeReturn(C, rr_args, c)
                        /\ EpisodeReturn(C, rr_args, c) <= rr_result.max

\* two episodes are closed, one by its terminal flag and one by its length,
\* and the unfinished steps after them would have changed the range
C14_Witness ==
    /\ rr_op = "return_range"
    /\ rr_result.status = "ok"
    /\ Len(rr_result.returns) = 2
    /\ rr_result.min < rr_result.max
    /\ rr_result.lengths[3] > 0
    /\ rr_result.lengths[1] = rr_args.max_episode_steps
    /\ ~rr_args.terminals[rr_args.max_episode_steps]
    /\ rr_result.lengths[2] < rr_args.max_episode_steps
    /\ SumOf(SubSeq(rr_args.rewards, rr_result.lengths[1] + rr_result.lengths[2] + 1,
                    Len(rr_args.rewards))) < rr_result.min

\* C15: for rewards and terminals of the same length the assertion
\* sum(lengths) == len(rewards) holds, every closed episode has between 1 and
\* max_episode_steps steps, and the call raises instead of returning a range
\* exactly when no episode was closed, that is when no terminal flag is set
\* and there are fewer than max_episode_steps steps.
C15_LengthsAndEmptyRange ==
    (rr_op = "return_range" /\ Len(rr_args.rewards) = Len(rr_args.terminals)) =>
        /\ rr_result.status # "AssertionError"
        /\ SumOf(rr_result.lengths) = Len(rr_args.rewards)
        /\ \A i \in 1..Len(rr_result.returns) :
              rr_result.lengths[i] \in 1..rr_args.max_episode_steps
        /\ rr_result.returns = <<>> <=>
              /\ \A i \in 1..Len(rr_args.terminals) : ~rr_args.terminals[i]
              /\ Len(rr_args.rewards) < rr_args.max_episode_steps
        /\ rr_result.returns = <<>> <=> rr_result.status = "ValueError"
        /\ rr_result.returns # <<>> <=> rr_result.status = "ok"

\* a call with steps but without a closed episode, which raises
C15_Witness ==
    /\ rr_op = "return_range"
    /\ Len(rr_args.rewards) = Len(rr_args.terminals)
    /\ Len(rr_args.rewards) > 1
    /\ rr_result.status = "ValueError"
    /\ rr_result.lengths = <<Len(rr_args.rewards)>>

\* C16: velocity(t, x0, x1) is x1 - x0 whatever t and the condition are, and
\* it is the slope of the mean path: wherever mean is defined at t1 and t2,
\* mean(t2, x0, x1) - mean(t1, x0, x1) = (t2 - t1) * velocity(t, x0, x1),
\* the times of a batch row applying to every component of the row.
C16_VelocityIsSlopeOfMean ==
    vel_op = "velocity" =>
        LET a == vel_args
            v == vel_result.velocity
            m1 == vel_result.mean1
            m2 == vel_result.mean2
        IN  /\ v.shape = a.x0.shape
            /\ \A k \in 1..Len(v.data) : v.data[k] = a.x1.data[k] - a.x0.data[k]
            /\ (m1.status = "ok") <=> (m2.status = "ok")
            /\ (m1.status = "ok" /\ m2.status = "ok") =>
                  LET shape == m1.value.shape
                      t1 == ExpandLeading(a.t1, shape)
                      t2 == ExpandLeading(a.t2, shape)
                      ve == ExpandLeading(v, shape)
                  IN  /\ m2.value.shape = shape
                      /\ \A k \in 1..Prod(shape) :
                            TDen * (m2.value.data[k] - m1.value.data[k])
                                = (t2.data[k] - t1.data[k]) * ve.data[k]

\* a batch of MaxN rows with a time per row and a condition: the means at
\* the two times differ, and the time runs backwards in one of the rows
C16_Witness ==
    /\ vel_op = "velocity"
    /\ vel_result.mean1.status = "ok"
    /\ vel_result.mean2.status = "ok"
    /\ vel_args.x0.shape = <<MaxN, XSize>>
    /\ vel_args.t1.shape = <<MaxN>>
    /\ ~IsNone(vel_args.condition)
    /\ vel_args.t1.data[1] < vel_args.t2.data[1]
    /\ vel_args.t1.data[MaxN] > vel_args.t2.data[MaxN]
    /\ vel_result.mean1.value # vel_result.mean2.value

\* did a step of this kind occur in the running (or the last) call of train
Occurred(kind) == events.first[kind] > 0

\* every step of kind k1 of the call came before every step of kind k2
AllBefore(k1, k2) ==
    (Occurred(k1) /\ Occurred(k2)) => events.last[k1] < events.first[k2]

====
